---- MODULE Spec2Model ----
(***************************************************************************)
(* Model of the tic-tac-toe bot of src/src/app/page.tsx: the position      *)
(* evaluator (checkWinner), the move generator (getAvailableMoves), the    *)
(* adversarial search engine (minimax with alpha-beta pruning, depth       *)
(* limiting and decision-tree construction) and the game component around  *)
(* them (player clicks, the bot's timer, difficulty changes and resets).   *)
(***************************************************************************)
EXTENDS Integers, Sequences, FiniteSets, TLC

\* ------------------------------------------------------------------------
\* Data model
\* ------------------------------------------------------------------------

\* type Player = "X" | "O" | null
Null == "null"
Player == {"X", "O", Null}

\* Array(9): the number of cells of a board.
NumCells == 9

\* Board indices, row-major.
Cells == 0 .. NumCells - 1

\* type BoardState = Player[]  (always of length 9 in this program)
BoardState == [Cells -> Player]

\* Array(9).fill(null)
EmptyBoard == [i \in Cells |-> Null]

\* const SCORES = { X: -10, O: 10, tie: 0 }
SCORES == [X |-> -10, O |-> 10, tie |-> 0]

\* Number.POSITIVE_INFINITY / Number.NEGATIVE_INFINITY: integers outside the
\* score alphabet, ordered above and below every score.
POSITIVE_INFINITY == 1000

\* Mutation: the placeholder of the maximizing branch is the lowest score.
lowestScore == SCORES.X

NEGATIVE_INFINITY == -1000

\* JavaScript's undefined for an optional move index.
Undefined == -1

\* Math.max / Math.min
Max(a, b) == IF a >= b THEN a ELSE b
Min(a, b) == IF a <= b THEN a ELSE b

\* ------------------------------------------------------------------------
\* Position evaluator
\* ------------------------------------------------------------------------

\* The fixed table of the 8 lines, in the order checkWinner tries them.
lines == << <<0, 1, 2>>, <<3, 4, 5>>, <<6, 7, 8>>,
            <<0, 3, 6>>, <<1, 4, 7>>, <<2, 5, 8>>,
            <<0, 4, 8>>, <<2, 4, 6>> >>

\* line: null
NoLine == <<>>

\* Mutation: the test that the first cell of the line is occupied is missing.
lineMatchesUnguarded(boardState, k) ==
    /\ boardState[lines[k][1]] = boardState[lines[k][2]]
    /\ boardState[lines[k][1]] = boardState[lines[k][3]]

\* The body of the for-loop of checkWinner: does line k match?
lineMatches(boardState, k) ==
    LET a == lines[k][1]
        b == lines[k][2]
        c == lines[k][3]
    IN  /\ boardState[a] # Null
        /\ boardState[a] = boardState[b]
        /\ boardState[a] = boardState[c]

\* boardState.every((square) => square !== null)
isFull(boardState) == \A i \in Cells : boardState[i] # Null

RECURSIVE checkLines(_, _)
\* The for-loop of checkWinner from line k on, followed by the tie check
\* and the final return, both of which return { winner: null, line: null }.
checkLines(boardState, k) ==
    IF k > Len(lines)
    THEN IF isFull(boardState)
         THEN [winner |-> Null, line |-> NoLine]
         ELSE [winner |-> Null, line |-> NoLine]
    ELSE IF lineMatches(boardState, k)
         THEN [winner |-> boardState[lines[k][1]], line |-> lines[k]]
         ELSE checkLines(boardState, k + 1)

\* Mutation: the loop starts at the second line of the table.
checkWinnerSkipFirst(boardState) == checkLines(boardState, 2)

checkWinner(boardState) == checkLines(boardState, 1)

\* ------------------------------------------------------------------------
\* Move generator
\* ------------------------------------------------------------------------

RECURSIVE movesFrom(_, _)
movesFrom(boardState, i) ==
    IF i >= NumCells THEN <<>>
    ELSE IF boardState[i] = Null
         THEN <<i>> \o movesFrom(boardState, i + 1)
         ELSE movesFrom(boardState, i + 1)

\* The indices of the empty cells, in ascending order.
getAvailableMoves(boardState) == movesFrom(boardState, 0)

\* ------------------------------------------------------------------------
\* Adversarial search engine
\* ------------------------------------------------------------------------

\* tree?: TreeNode -- an optional node is a sequence of length 0 or 1.
NoTree == <<>>

\* Mutation: the loop never breaks.
cutoffNever(alpha, beta) == FALSE

\* Mutation: the pruning condition is strict.
cutoffStrict(alpha, beta) == beta < alpha

\* Mutation: the pruning condition inverted.
cutoffInverted(alpha, beta) == alpha <= beta

\* if (beta <= alpha) break;
cutoff(alpha, beta) == beta <= alpha

\* Mutation: the maximizing branch also takes an equally good later move.
betterMaxOrEqual(score, bestScore) == score >= bestScore

\* Mutation: the maximizing branch compares the wrong way round.
betterMaxFlipped(score, bestScore) == score < bestScore

\* if (score > bestScore)   -- maximizing branch
betterMax(score, bestScore) == score > bestScore

\* Mutation: the minimizing branch also takes an equally good later move.
betterMinOrEqual(score, bestScore) == score <= bestScore

\* Mutation: the minimizing branch compares the wrong way round.
betterMinFlipped(score, bestScore) == score > bestScore

\* if (score < bestScore)   -- minimizing branch
betterMin(score, bestScore) == score < bestScore

\* Mutation: the node built for a child without a tree scores 0.
childNodeOfUnscored(r, newBoard, move) ==
    IF r.tree # NoTree
    THEN r.tree[1]
    ELSE [board |-> newBoard, score |-> 0, move |-> move,
          children |-> <<>>]

\* const childNode = tree || { board: newBoard, score, move, children: [] }
childNodeOf(r, newBoard, move) ==
    IF r.tree # NoTree
    THEN r.tree[1]
    ELSE [board |-> newBoard, score |-> r.score, move |-> move,
          children |-> <<>>]

RECURSIVE minimax(_, _, _, _, _)
RECURSIVE maxLoop(_, _, _, _, _, _, _, _)
RECURSIVE minLoop(_, _, _, _, _, _, _, _)

\* The for-loop of the maximizing branch, from the candidate moves still to
\* visit, with the loop's mutable variables as accumulators.
maxLoop(boardState, depth, moves, alpha, beta, bestScore, bestMove, children) ==
    IF moves = <<>>
    THEN [score |-> bestScore, move |-> bestMove,
          tree |-> <<[board |-> boardState, score |-> bestScore,
                      move |-> bestMove, children |-> children]>>]
    ELSE LET move == Head(moves)
             newBoard == [boardState EXCEPT ![move] = "O"]
             r == minimax(newBoard, depth - 1, FALSE, alpha, beta)
             kids == Append(children, childNodeOf(r, newBoard, move))
             better == betterMax(r.score, bestScore)
             newBest == IF better THEN r.score ELSE bestScore
             newMove == IF better THEN move ELSE bestMove
             newAlpha == Max(alpha, newBest)
         IN  IF cutoff(newAlpha, beta)
             THEN maxLoop(boardState, depth, <<>>, newAlpha, beta,
                          newBest, newMove, kids)
             ELSE maxLoop(boardState, depth, Tail(moves), newAlpha, beta,
                          newBest, newMove, kids)

\* The for-loop of the minimizing branch.
minLoop(boardState, depth, moves, alpha, beta, bestScore, bestMove, children) ==
    IF moves = <<>>
    THEN [score |-> bestScore, move |-> bestMove,
          tree |-> <<[board |-> boardState, score |-> bestScore,
                      move |-> bestMove, children |-> children]>>]
    ELSE LET move == Head(moves)
             newBoard == [boardState EXCEPT ![move] = "X"]
             r == minimax(newBoard, depth - 1, TRUE, alpha, beta)
             kids == Append(children, childNodeOf(r, newBoard, move))
             better == betterMin(r.score, bestScore)
             newBest == IF better THEN r.score ELSE bestScore
             newMove == IF better THEN move ELSE bestMove
             newBeta == Min(beta, newBest)
         IN  IF cutoff(alpha, newBeta)
             THEN minLoop(boardState, depth, <<>>, alpha, newBeta,
                          newBest, newMove, kids)
             ELSE minLoop(boardState, depth, Tail(moves), alpha, newBeta,
                          newBest, newMove, kids)

minimax(boardState, depth, isMaximizing, alpha, beta) ==
    LET winner == checkWinner(boardState).winner
    IN  IF winner = "X"
        THEN [score |-> SCORES.X, move |-> Undefined, tree |-> NoTree]
        ELSE IF winner = "O"
        THEN [score |-> SCORES.O, move |-> Undefined, tree |-> NoTree]
        ELSE IF isFull(boardState)
        THEN [score |-> SCORES.tie, move |-> Undefined, tree |-> NoTree]
        ELSE IF depth = 0
        THEN [score |-> 0, move |-> Undefined, tree |-> NoTree]
        ELSE IF isMaximizing
        THEN maxLoop(boardState, depth, getAvailableMoves(boardState),
                     alpha, beta, NEGATIVE_INFINITY, Undefined, <<>>)
        ELSE minLoop(boardState, depth, getAvailableMoves(boardState),
                     alpha, beta, POSITIVE_INFINITY, Undefined, <<>>)

\* A call with the default bounds.
search(boardState, depth, isMaximizing) ==
    minimax(boardState, depth, isMaximizing,
            NEGATIVE_INFINITY, POSITIVE_INFINITY)

\* ------------------------------------------------------------------------
\* State: the board handed to the engine or the evaluator, the operation that
\* was applied to it, its arguments and what it returned.
\* ------------------------------------------------------------------------

\* Largest depth budget of a depth-limited search (Hard looks 4 plies ahead).
MaxDepth == 4

\* The depth budget of a full-depth search.
FullDepth == 9

VARIABLES board, op, argDepth, argMax, result, outcome

\* The rest of the component's state: the useState cells isXNext,
\* gameStatus, winner, winningLine, difficulty and botTree, and botTimeout,
\* which is TRUE while the timer held in botTimeoutRef is pending.
VARIABLES isXNext, gameStatus, winner, winningLine, difficulty, botTree,
          botTimeout

\* History of the current game: the difficulties at which the bot has moved,
\* whether makeBotMove has taken its Math.random branch, and whether the
\* reset that began the game found the bot's timer pending.
VARIABLES botDifficulties, fallback, cancelled

gameVars == <<isXNext, gameStatus, winner, winningLine, difficulty, botTree,
              botTimeout, botDifficulties, fallback, cancelled>>

vars == <<board, op, argDepth, argMax, result, outcome, isXNext, gameStatus,
          winner, winningLine, difficulty, botTree, botTimeout,
          botDifficulties, fallback, cancelled>>

\* type Difficulty = "Easy" | "Medium" | "Hard"
Difficulty == {"Easy", "Medium", "Hard"}

NoResult == [score |-> 0, move |-> Undefined, tree |-> NoTree]
NoOutcome == [winner |-> Null, line |-> NoLine]

count(b, p) == Cardinality({i \in Cells : b[i] = p})

\* The side whose turn it is on a board produced by legal play, X first.
toMove(b) == IF count(b, "X") = count(b, "O") THEN "X" ELSE "O"

\* The game is over: makeMove places no further mark.
isTerminal(b) == checkWinner(b).winner # Null \/ isFull(b)

\* The useState initial values; no timer is pending.
Mounted ==
    /\ isXNext = TRUE
    /\ gameStatus = "playing"
    /\ winner = Null
    /\ winningLine = NoLine
    /\ difficulty = "Medium"
    /\ botTree = NoTree
    /\ botTimeout = FALSE
    /\ botDifficulties = {}
    /\ fallback = FALSE
    /\ cancelled = FALSE

Idle ==
    /\ op = "idle"
    /\ argDepth = 0
    /\ argMax = FALSE
    /\ result = NoResult
    /\ outcome = NoOutcome
    /\ Mounted

\* One ply of legal play: strict alternation, X first, no move after the end.
Play(i) ==
    /\ op = "idle"
    /\ ~isTerminal(board)
    /\ board[i] = Null
    /\ board' = [board EXCEPT ![i] = toMove(board)]
    /\ UNCHANGED <<op, argDepth, argMax, result, outcome>>
    /\ UNCHANGED gameVars

\* A top-level call minimax(board, d, m) with the default bounds.
Search(d, m) ==
    /\ op = "idle"
    /\ op' = "minimax"
    /\ argDepth' = d
    /\ argMax' = m
    /\ result' = search(board, d, m)
    /\ UNCHANGED <<board, outcome>>
    /\ UNCHANGED gameVars

\* A call checkWinner(board).
Evaluate ==
    /\ op = "idle"
    /\ op' = "checkWinner"
    /\ outcome' = checkWinner(board)
    /\ UNCHANGED <<board, argDepth, argMax, result>>
    /\ UNCHANGED gameVars

\* ------------------------------------------------------------------------
\* SpecSearch: the engine on every board that legal play produces, either
\* side to move, depth-limited and at full depth, and the evaluator on the
\* same boards.
\* ------------------------------------------------------------------------

InitSearch == board = EmptyBoard /\ Idle

NextSearch ==
    \/ \E i \in Cells : Play(i)
    \/ \E d \in (0 .. MaxDepth) \cup {FullDepth}, m \in BOOLEAN : Search(d, m)
    \/ Evaluate

SpecSearch == InitSearch /\ [][NextSearch]_vars

\* ------------------------------------------------------------------------
\* SpecFixture: the engine at every depth budget on the boards of the legal
\* games that build the regression fixture ["O","O",null,"X","X",null,...].
\* ------------------------------------------------------------------------

Fixture == [i \in Cells |->
              IF i \in {0, 1} THEN "O" ELSE IF i \in {3, 4} THEN "X" ELSE Null]

PlayFixture(i) == Fixture[i] = toMove(board) /\ Play(i)

NextFixture ==
    \/ \E i \in Cells : PlayFixture(i)
    \/ \E d \in 0 .. FullDepth, m \in BOOLEAN : Search(d, m)

SpecFixture == InitSearch /\ [][NextFixture]_vars

\* ------------------------------------------------------------------------
\* SpecEval: the evaluator on every 9-cell board over {null, X, O}.
\* ------------------------------------------------------------------------

InitEval == board \in BoardState /\ Idle

NextEval == Evaluate

SpecEval == InitEval /\ [][NextEval]_vars

\* ------------------------------------------------------------------------
\* Spec: the game component.  Every action is one event handler or timer
\* callback together with the re-render and the effects it causes.
\* ------------------------------------------------------------------------

\* Mutation: every mark placed is the player's.
nextMarkAlwaysX(xNext) == "X"

\* isXNext ? "X" : "O"
nextMark(xNext) == IF xNext THEN "X" ELSE "O"

\* The depth makeBotMove hands to minimax.
depthFor(d) ==
    CASE d = "Easy" -> 2
      [] d = "Medium" -> 3
      [] d = "Hard" -> 4
      [] OTHER -> 3

\* Mutation: the effect schedules the timer on the player's turn.
botTurnEffectWrongTurn(xNext, status) == xNext /\ status = "playing"

\* Mutation: the effect does not test whose turn it is.
botTurnEffectAnyTurn(xNext, status) == status = "playing"

\* The bot's-turn effect after a render: its cleanup clears the pending
\* timer, and a new one is set exactly when it is O's turn in a running game.
botTurnEffect(xNext, status) == ~xNext /\ status = "playing"

\* makeMove(index): the state updates it queues.
makeMove(index) ==
    IF board[index] # Null \/ gameStatus # "playing"
    THEN UNCHANGED <<board, isXNext, gameStatus, winner, winningLine>>
    ELSE LET newBoard == [board EXCEPT ![index] = nextMark(isXNext)]
             w == checkWinner(newBoard)
         IN  /\ board' = newBoard
             /\ IF w.winner # Null
                THEN /\ gameStatus' = "won"
                     /\ winner' = w.winner
                     /\ winningLine' = w.line
                     /\ UNCHANGED isXNext
                ELSE IF isFull(newBoard)
                THEN /\ gameStatus' = "tie"
                     /\ UNCHANGED <<isXNext, winner, winningLine>>
                ELSE /\ isXNext' = ~isXNext
                     /\ UNCHANGED <<gameStatus, winner, winningLine>>

\* resetGame: clears the pending timer and restores the initial state (the
\* difficulty is kept); a new game has no search and no history yet.
resetGame ==
    /\ board' = EmptyBoard
    /\ isXNext' = TRUE
    /\ gameStatus' = "playing"
    /\ winner' = Null
    /\ winningLine' = NoLine
    /\ botTree' = NoTree
    /\ op' = "idle"
    /\ argDepth' = 0
    /\ argMax' = FALSE
    /\ result' = NoResult
    /\ botDifficulties' = {}
    /\ fallback' = FALSE
    /\ cancelled' = botTimeout

\* handlePlayerClick(index), when its condition holds.
PlayerClick(index) ==
    /\ isXNext /\ gameStatus = "playing" /\ board[index] = Null
    /\ makeMove(index)
    /\ botTimeout' = botTurnEffect(isXNext', gameStatus')
    /\ UNCHANGED <<op, argDepth, argMax, result, outcome, difficulty, botTree,
                   botDifficulties, fallback, cancelled>>

\* The guards under which the pending timer's callback makes a move: the
\* timer is pending, the game is on and a cell is free.
BotTimerEnabled ==
    /\ botTimeout
    /\ gameStatus = "playing"
    /\ getAvailableMoves(board) # <<>>

\* The pending timer fires: makeBotMove.
BotTimer ==
    /\ BotTimerEnabled
    /\ UNCHANGED <<outcome, difficulty, cancelled>>
    /\ op' = "minimax"
    /\ argDepth' = depthFor(difficulty)
    /\ argMax' = TRUE
    /\ botDifficulties' = botDifficulties \cup {difficulty}
    /\ LET r == search(board, depthFor(difficulty), TRUE)
       IN  /\ result' = r
           /\ botTree' = r.tree
           /\ IF r.move # Undefined
              THEN makeMove(r.move) /\ UNCHANGED fallback
              ELSE /\ \E k \in 1 .. Len(getAvailableMoves(board)) :
                         makeMove(getAvailableMoves(board)[k])
                   /\ fallback' = TRUE
    /\ botTimeout' = botTurnEffect(isXNext', gameStatus')

\* onValueChange of the difficulty radio group.
SetDifficulty(d) ==
    /\ d # difficulty
    /\ difficulty' = d
    /\ IF gameStatus # "playing"
       THEN resetGame
       ELSE UNCHANGED <<board, isXNext, gameStatus, winner, winningLine,
                        botTree, op, argDepth, argMax, result,
                        botDifficulties, fallback, cancelled>>
    /\ botTimeout' = botTurnEffect(isXNext', gameStatus')
    /\ UNCHANGED outcome

\* The New Game button: startNewGame.
NewGame ==
    /\ resetGame
    /\ botTimeout' = botTurnEffect(isXNext', gameStatus')
    /\ UNCHANGED <<difficulty, outcome>>

\* The state after mounting: the mount effect has run startNewGame.
Init == board = EmptyBoard /\ Idle

Next ==
    \/ \E i \in Cells : PlayerClick(i)
    \/ BotTimer
    \/ \E d \in Difficulty : SetDifficulty(d)
    \/ NewGame

Spec == Init /\ [][Next]_vars

\* A scheduled timer eventually fires: weak fairness of BotTimer, that is
\* WF_vars(BotTimer), written out with BotTimerEnabled for
\* ENABLED <<BotTimer>>_vars (once the guards pass the callback always
\* marks a cell, so the two are the same predicate).
TimerFires == []<>~BotTimerEnabled \/ []<><<BotTimer>>_vars

FairSpec == Spec /\ TimerFires

\* ------------------------------------------------------------------------
\* Reference: plain minimax, the recursion of minimax without the
\* 'beta <= alpha' cutoff.  Every candidate move is visited, so the score of
\* a node is the maximum (O to move) or minimum (X to move) of the scores of
\* all its children, and alpha and beta have no effect on it.
\* ------------------------------------------------------------------------

\* Side p holds all three cells of some line.
Won(b, p) == \E k \in 1 .. 8 : \A j \in 1 .. 3 : b[lines[k][j]] = p

SetMax(S) == CHOOSE x \in S : \A y \in S : y <= x
SetMin(S) == CHOOSE x \in S : \A y \in S : x <= y

RECURSIVE plainMinimax(_, _, _)
plainMinimax(b, depth, isMaximizing) ==
    IF Won(b, "X") THEN -10
    ELSE IF Won(b, "O") THEN 10
    ELSE IF \A i \in Cells : b[i] # Null THEN 0
    ELSE IF depth = 0 THEN 0
    ELSE LET scores ==
               {plainMinimax([b EXCEPT ![c] = IF isMaximizing THEN "O" ELSE "X"],
                             depth - 1, ~isMaximizing) :
                   c \in {i \in Cells : b[i] = Null}}
         IN  IF isMaximizing THEN SetMax(scores) ELSE SetMin(scores)

\* The empty cells of a board.
EmptyCells(b) == {c \in Cells : b[c] = Null}

\* The mark the side to move places.
MarkOf(isMaximizing) == IF isMaximizing THEN "O" ELSE "X"

\* The board after the side to move plays cell c.
After(b, c, isMaximizing) == [b EXCEPT ![c] = MarkOf(isMaximizing)]

\* The full-depth minimax value of the position reached when O plays c.
ValueAfterO(b, c) == plainMinimax(After(b, c, TRUE), NumCells, FALSE)

\* The engine has returned from a top-level call on a non-terminal board.
Searched == op = "minimax" /\ ~isTerminal(board)

\* ------------------------------------------------------------------------
\* Properties of the search engine
\* ------------------------------------------------------------------------

\* C1 -- Optimality under full-depth search: on a non-terminal board with O
\* (the maximizing side) to move and depth >= 9, if some empty cell leads to
\* a position of full-depth minimax value >= 0, the returned move is an empty
\* cell that leads to a position of full-depth minimax value >= 0.
Optimality ==
    (Searched /\ argMax /\ argDepth >= NumCells) =>
        ((\E c \in EmptyCells(board) : ValueAfterO(board, c) >= 0) =>
            /\ result.move \in EmptyCells(board)
            /\ ValueAfterO(board, result.move) >= 0)

\* A full-depth search for O on a board where some moves lose and others do
\* not, which returned one that does not.
OptimalityWitness ==
    /\ Searched /\ argMax /\ argDepth >= NumCells
    /\ result.move \in EmptyCells(board)
    /\ ValueAfterO(board, result.move) >= 0
    /\ \E c \in EmptyCells(board) : ValueAfterO(board, c) < 0

\* C2 -- Pruning correctness: at full depth (depth >= 9), for either side to
\* move, the score returned with alpha-beta pruning from the default bounds
\* equals the score of the same recursion without the cutoff.
PruningCorrect ==
    (op = "minimax" /\ argDepth >= NumCells) =>
        result.score = plainMinimax(board, argDepth, argMax)

\* A full-depth search in which a cutoff fired: some child of the root has
\* children, but fewer than its board has empty cells.
PruningWitness ==
    /\ Searched /\ argDepth >= NumCells
    /\ \E i \in 1 .. Len(result.tree[1].children) :
          LET child == result.tree[1].children[i]
          IN  /\ child.children # <<>>
              /\ Len(child.children) < Cardinality(EmptyCells(child.board))
    /\ result.score = plainMinimax(board, argDepth, argMax)

\* C3 -- On the empty board with O to move and depth >= 9 the engine returns
\* score 0 and a move after which mutually optimal play ends in at worst a
\* tie for O.
EmptyBoardDraw ==
    (op = "minimax" /\ board = EmptyBoard /\ argMax /\ argDepth >= NumCells) =>
        /\ result.score = 0
        /\ result.move \in Cells
        /\ ValueAfterO(EmptyBoard, result.move) >= 0

\* The full-depth search for O on the empty board has returned score 0.
EmptyBoardWitness ==
    /\ op = "minimax" /\ board = EmptyBoard /\ argMax /\ argDepth >= NumCells
    /\ result.score = 0
    /\ result.move \in Cells

\* C4 -- Regression fixture as stated: on the board with O at 0 and 1 and X
\* at 3 and 4, X to move, every depth from 1 up returns move 5 and score -10.
FixtureAsStated ==
    (op = "minimax" /\ board = Fixture /\ ~argMax /\ argDepth >= 1) =>
        /\ result.move = 5
        /\ result.score = -10

\* C4, amended -- on the fixture board with X to move every depth from 1 up
\* returns score -10; the move is 5 at depths 1 and 2 and 2 at every depth
\* from 3 up (X at 2 threatens both 5 and 6, so it also scores -10 and is
\* the first such candidate).
FixtureAmended ==
    (op = "minimax" /\ board = Fixture /\ ~argMax /\ argDepth >= 1) =>
        /\ result.score = -10
        /\ result.move = IF argDepth <= 2 THEN 5 ELSE 2

\* The fixture board searched for X at a depth that sees the double threat.
FixtureWitness ==
    /\ op = "minimax" /\ board = Fixture /\ ~argMax /\ argDepth >= 3
    /\ result.score = -10
    /\ result.move = 2

\* C7 -- Depth-limited cutoff as stated: on a non-terminal board with
\* depth 0 the engine returns score 0 and no move, and that result differs
\* from the result it returns for a true tie (a full board with no line).
TieBoard == [i \in Cells |-> IF i \in {0, 2, 3, 7, 8} THEN "X" ELSE "O"]

HorizonDistinctFromTie ==
    (Searched /\ argDepth = 0) =>
        /\ result.score = 0
        /\ result.move = Undefined
        /\ result # search(TieBoard, argDepth, argMax)

\* C8 -- Tie-break: on a non-terminal board with depth >= 1 the returned
\* move is the smallest empty cell among those whose position has a
\* depth-limited minimax value (depth - 1, other side to move) equal to the
\* returned score.
BestCells(b, depth, isMaximizing, score) ==
    {c \in EmptyCells(b) :
        plainMinimax(After(b, c, isMaximizing), depth - 1, ~isMaximizing)
            = score}

TieBreak ==
    (Searched /\ argDepth >= 1) =>
        LET best == BestCells(board, argDepth, argMax, result.score)
        IN  /\ best # {}
            /\ result.move = SetMin(best)

\* A search in which the first candidate is not a best move, several later
\* candidates are, and the smallest of them was returned.
TieBreakWitness ==
    /\ Searched /\ argDepth >= 1
    /\ result.move > SetMin(EmptyCells(board))
    /\ LET best == BestCells(board, argDepth, argMax, result.score)
       IN  Cardinality(best) >= 2 /\ result.move = SetMin(best)

\* C15 -- minimax returns no move exactly when the board is terminal or the
\* depth is 0; on a non-terminal board with depth >= 1 it returns a move that
\* is an empty cell of the input board.
MoveDefined ==
    (op = "minimax") =>
        IF isTerminal(board) \/ argDepth = 0
        THEN result.move = Undefined
        ELSE result.move \in EmptyCells(board)

\* A search at depth >= 1 on a board with a single empty cell, which is the
\* move returned.
MoveDefinedWitness ==
    /\ Searched /\ argDepth >= 1
    /\ Cardinality(EmptyCells(board)) = 1
    /\ result.move \in EmptyCells(board)

\* ------------------------------------------------------------------------
\* Properties of the decision tree
\* ------------------------------------------------------------------------

\* The i-th smallest element of a set of cells.
NthCell(E, i) == CHOOSE c \in E : Cardinality({e \in E : e < c}) = i - 1

\* The engine returns from a call on b with this depth without a tree.
IsLeaf(b, depth) ==
    \/ Won(b, "X") \/ Won(b, "O")
    \/ EmptyCells(b) = {}
    \/ depth = 0

RECURSIVE TreeComplete(_, _, _, _, _)
\* node is the tree of a call entered with (depth, isMaximizing, alpha, beta):
\* its children are a non-empty prefix of the candidate moves in ascending
\* order, each on the board that move produces; replaying the updates of
\* alpha (O to move) or beta (X to move) from the children's scores, the
\* condition beta <= alpha holds after no child but the last, and holds after
\* the last unless every candidate has a child; and so on for each child,
\* entered with the bounds as they stood before it.
TreeComplete(node, depth, isMaximizing, alpha, beta) ==
    LET E == EmptyCells(node.board)
        n == Len(node.children)
        Scores(i) == {node.children[j].score : j \in 1 .. i}
        AlphaAfter(i) == IF isMaximizing /\ i > 0
                         THEN Max(alpha, SetMax(Scores(i))) ELSE alpha
        BetaAfter(i) == IF ~isMaximizing /\ i > 0
                        THEN Min(beta, SetMin(Scores(i))) ELSE beta
        Fired(i) == BetaAfter(i) <= AlphaAfter(i)
    IN  /\ n >= 1
        /\ n <= Cardinality(E)
        /\ \A i \in 1 .. n - 1 : ~Fired(i)
        /\ n = Cardinality(E) \/ Fired(n)
        /\ \A i \in 1 .. n :
              LET child == node.children[i]
              IN  /\ child.board = After(node.board, NthCell(E, i), isMaximizing)
                  /\ IF IsLeaf(child.board, depth - 1)
                     THEN child.children = <<>>
                     ELSE TreeComplete(child, depth - 1, ~isMaximizing,
                                       AlphaAfter(i - 1), BetaAfter(i - 1))

\* C9 -- Tree completeness: at every node of the returned tree the children
\* are, in ascending move order, exactly one child per candidate move visited
\* before the 'beta <= alpha' cutoff fired at that node, each on the node's
\* board with that cell set to the mover's mark.
TreeCompleteness ==
    (Searched /\ argDepth >= 1) =>
        /\ result.tree # NoTree
        /\ result.tree[1].board = board
        /\ TreeComplete(result.tree[1], argDepth, argMax,
                        NEGATIVE_INFINITY, POSITIVE_INFINITY)

\* A returned tree in which one child of the root was cut off before its last
\* candidate and another has a child for every candidate.
TreeWitness ==
    /\ Searched /\ argDepth >= 2
    /\ LET kids == result.tree[1].children
           Visited(i) == Len(kids[i].children)
           Candidates(i) == Cardinality(EmptyCells(kids[i].board))
       IN  /\ \E i \in 1 .. Len(kids) : 0 < Visited(i) /\ Visited(i) < Candidates(i)
           /\ \E i \in 1 .. Len(kids) : 0 < Visited(i) /\ Visited(i) = Candidates(i)
    /\ TreeComplete(result.tree[1], argDepth, argMax,
                    NEGATIVE_INFINITY, POSITIVE_INFINITY)

\* The bounds with which the call for the i-th child of a node is entered,
\* replayed from the scores of the children before it: the node's own entry
\* bounds, alpha raised (O to move) or beta lowered (X to move) by the best
\* score so far.
AlphaBefore(node, i, isMaximizing, alpha) ==
    IF isMaximizing /\ i > 1
    THEN Max(alpha, SetMax({node.children[j].score : j \in 1 .. i - 1}))
    ELSE alpha

BetaBefore(node, i, isMaximizing, beta) ==
    IF ~isMaximizing /\ i > 1
    THEN Min(beta, SetMin({node.children[j].score : j \in 1 .. i - 1}))
    ELSE beta

RECURSIVE WindowsOpen(_, _, _, _)
\* The call that built node was entered with alpha < beta, and so was every
\* call below it, those that returned no tree included.
WindowsOpen(node, isMaximizing, alpha, beta) ==
    /\ alpha < beta
    /\ \A i \in 1 .. Len(node.children) :
          LET a == AlphaBefore(node, i, isMaximizing, alpha)
              b == BetaBefore(node, i, isMaximizing, beta)
          IN  /\ a < b
              /\ node.children[i].children # <<>> =>
                    WindowsOpen(node.children[i], ~isMaximizing, a, b)

\* C16 -- Alpha-beta window invariant: in a search started with the default
\* bounds every recursive call of minimax is entered with alpha < beta.
WindowInvariant ==
    (Searched /\ argDepth >= 1) =>
        WindowsOpen(result.tree[1], argMax,
                    NEGATIVE_INFINITY, POSITIVE_INFINITY)

\* A search whose second top-level candidate was searched further, entered
\* with a bound narrowed by the first candidate's score.
WindowWitness ==
    /\ Searched /\ argDepth >= 2
    /\ Len(result.tree[1].children) >= 2
    /\ result.tree[1].children[2].children # <<>>
    /\ \/ AlphaBefore(result.tree[1], 2, argMax, NEGATIVE_INFINITY)
            > NEGATIVE_INFINITY
       \/ BetaBefore(result.tree[1], 2, argMax, POSITIVE_INFINITY)
            < POSITIVE_INFINITY
    /\ WindowsOpen(result.tree[1], argMax,
                   NEGATIVE_INFINITY, POSITIVE_INFINITY)

\* The score alphabet.
ScoreAlphabet == {SCORES.X, SCORES.tie, SCORES.O}

\* How many levels below the root the calls are evaluated again.
RecheckLevels == 1

RECURSIVE ScoresReturned(_, _, _, _, _, _)
\* Every node below this one has a score of the alphabet; down to the given
\* level it is the score minimax returns for the node's board when called as
\* the search called it.
ScoresReturned(node, depth, isMaximizing, alpha, beta, levels) ==
    \A i \in 1 .. Len(node.children) :
        LET child == node.children[i]
            a == AlphaBefore(node, i, isMaximizing, alpha)
            b == BetaBefore(node, i, isMaximizing, beta)
        IN  /\ child.score \in ScoreAlphabet
            /\ levels > 0 =>
                 child.score =
                     minimax(child.board, depth - 1, ~isMaximizing, a, b).score
            /\ ScoresReturned(child, depth - 1, ~isMaximizing, a, b,
                              IF levels > 0 THEN levels - 1 ELSE 0)

\* C17 -- Score alphabet: the score minimax returns and the score of every
\* node of the returned tree is one of -10, 0, +10 (no placeholder remains),
\* the root's score is the returned score and a node's score is the score
\* minimax returned for that node's board.
ScoresInAlphabet ==
    (op = "minimax") =>
        /\ result.score \in ScoreAlphabet
        /\ result.tree # NoTree =>
              /\ result.tree[1].score = result.score
              /\ ScoresReturned(result.tree[1], argDepth, argMax,
                                NEGATIVE_INFINITY, POSITIVE_INFINITY,
                                RecheckLevels)

\* A returned tree of at least three levels with a score of each kind among
\* the root's children.
ScoresWitness ==
    /\ Searched /\ argDepth >= 3
    /\ LET kids == result.tree[1].children
       IN  /\ \E i \in 1 .. Len(kids) : kids[i].score = SCORES.X
           /\ \E i \in 1 .. Len(kids) : kids[i].score = SCORES.tie
           /\ \E i \in 1 .. Len(kids) : kids[i].children # <<>>
    /\ result.score \in ScoreAlphabet

\* The cell in which a child's board differs from its parent's board.
ProducingMove(parent, child) ==
    CHOOSE c \in Cells : child.board[c] # parent.board[c]

RECURSIVE ChildrenLabelled(_)
\* Every node below this one carries the move that produced its board.
ChildrenLabelled(node) ==
    \A i \in 1 .. Len(node.children) :
        /\ node.children[i].move = ProducingMove(node, node.children[i])
        /\ ChildrenLabelled(node.children[i])

\* C10 -- Move attribute, as stated: in every returned tree the root's move
\* is absent and every other node's move is the move that produced that
\* node's board from its parent's board.
MoveAttribute ==
    (Searched /\ argDepth >= 1) =>
        /\ result.tree[1].move = Undefined
        /\ ChildrenLabelled(result.tree[1])

\* ------------------------------------------------------------------------
\* Properties of the evaluator
\* ------------------------------------------------------------------------

\* The fixed order of the 8 lines.
CanonicalLines == << <<0, 1, 2>>, <<3, 4, 5>>, <<6, 7, 8>>,
                     <<0, 3, 6>>, <<1, 4, 7>>, <<2, 5, 8>>,
                     <<0, 4, 8>>, <<2, 4, 6>> >>

\* The lines of three equal non-empty cells of a board, by position in the
\* fixed order.
WinningLines(b) ==
    {k \in 1 .. 8 : \E p \in {"X", "O"} :
                       \A j \in 1 .. 3 : b[CanonicalLines[k][j]] = p}

\* C5 -- checkWinner returns the mark on the first line of three equal
\* non-empty cells in the fixed order together with that line's indices, and
\* no winner and no line when the board has no such line.
EvaluatorCorrect ==
    (op = "checkWinner") =>
        IF WinningLines(board) # {}
        THEN LET first == CanonicalLines[SetMin(WinningLines(board))]
             IN  /\ outcome.winner = board[first[1]]
                 /\ outcome.line = first
        ELSE /\ outcome.winner = Null
             /\ outcome.line = NoLine

\* A board with several lines of three, evaluated to the first of them.
EvaluatorWitness ==
    /\ op = "checkWinner"
    /\ Cardinality(WinningLines(board)) >= 2
    /\ outcome.winner \in {"X", "O"}
    /\ outcome.line = CanonicalLines[SetMin(WinningLines(board))]

\* C6 -- The evaluator distinguishes tie from non-terminal, as stated: the
\* result for a full board with no line differs from the result for the
\* non-terminal boards (here: the same board with one cell emptied).
TieDistinctFromNonTerminal ==
    (op = "checkWinner" /\ WinningLines(board) = {} /\ EmptyCells(board) = {}) =>
        \A c \in Cells : outcome # checkWinner([board EXCEPT ![c] = Null])

\* C13 -- Both sides with a line, as stated: on every board that holds a
\* complete line of X and a complete line of O the evaluator returns X.
BothLinesReturnX ==
    (op = "checkWinner" /\ Won(board, "X") /\ Won(board, "O")) =>
        outcome.winner = "X"

\* The position in the fixed order of the first complete line of side p.
FirstLineOf(b, p) ==
    SetMin({k \in 1 .. 8 : \A j \in 1 .. 3 : b[CanonicalLines[k][j]] = p})

\* C13, amended -- on every board that holds a complete line of X and a
\* complete line of O the evaluator returns the side whose first complete
\* line comes first in the fixed order of the 8 lines.
BothLinesReturnFirst ==
    (op = "checkWinner" /\ Won(board, "X") /\ Won(board, "O")) =>
        outcome.winner = IF FirstLineOf(board, "X") < FirstLineOf(board, "O")
                         THEN "X" ELSE "O"

\* A board on which O's line precedes X's line, evaluated to O.
BothLinesWitness ==
    /\ op = "checkWinner" /\ Won(board, "X") /\ Won(board, "O")
    /\ FirstLineOf(board, "O") < FirstLineOf(board, "X")
    /\ outcome.winner = "O"

\* ------------------------------------------------------------------------
\* Properties of the game component
\* ------------------------------------------------------------------------

\* C11 -- The bot makes optimal moves, as stated: in a game in which every
\* bot move was made at Hard difficulty the player never wins, i.e. no state
\* has gameStatus = "won" and winner = "X".
BotNeverLoses ==
    ~(/\ gameStatus = "won"
      /\ winner = "X"
      /\ botDifficulties = {"Hard"})

\* The consequence of C15 for the game: whenever makeBotMove has run past
\* its guards, minimax returned a move, that move was an empty cell of the
\* board searched and now holds the bot's mark, and the Math.random branch
\* has not been taken.
FallbackNeverTaken ==
    /\ ~fallback
    /\ botDifficulties # {} =>
          /\ result.move \in Cells
          /\ result.tree # NoTree
          /\ result.tree[1].board[result.move] = Null
          /\ board[result.move] = "O"

\* The depths the README documents: Easy looks 2 moves ahead, Medium 4,
\* Hard 8.
ReadmeDepth == [Easy |-> 2, Medium |-> 4, Hard |-> 8]

\* A step in which the bot has called minimax: an O was placed.
BotMoved == count(board', "O") > count(board, "O")

\* C12 -- Depth by difficulty, as stated: whenever the bot moves, the depth
\* it passed to minimax is 2 at Easy, 4 at Medium and 8 at Hard.
DepthByDifficulty ==
    [][BotMoved => argDepth' = ReadmeDepth[difficulty]]_vars

\* The cells that are empty before a step and marked after it.
Added == {c \in Cells : board[c] = Null /\ board'[c] # Null}

\* The step restores the empty board.
ResetStep == board' = EmptyBoard

\* No mark is replaced or removed.
MarksKept == \A c \in Cells : board[c] # Null => board'[c] = board[c]

\* The marks alternate, X first.
TurnsBalanced ==
    /\ count(board, "X") - count(board, "O") \in {0, 1}
    /\ gameStatus = "playing" =>
          (isXNext <=> count(board, "X") = count(board, "O"))

\* A step other than a reset keeps every mark and adds at most one; an X is
\* added only on X's turn, by the player (no timer is pending); an O only on
\* O's turn, by the bot's timer.
TurnStep ==
    \/ ResetStep
    \/ /\ MarksKept
       /\ Cardinality(Added) <= 1
       /\ \A c \in Added :
             /\ board'[c] = "X" => isXNext /\ ~botTimeout
             /\ board'[c] = "O" => ~isXNext /\ botTimeout

\* C18 -- Strict turn alternation: in every reachable state the number of X
\* marks minus the number of O marks is 0 or 1 and, while the game is
\* running, isXNext holds exactly when they are equal; a click places an X
\* only when isXNext holds, the bot places an O only when it does not, and no
\* occupied cell is overwritten before a reset.
TurnAlternation == []TurnsBalanced /\ [][TurnStep]_vars

\* A running game after two clicks and two bot moves.
TurnWitness ==
    /\ gameStatus = "playing" /\ isXNext
    /\ count(board, "X") = 2
    /\ count(board, "O") = 2

\* Whenever the timer is pending it is O's turn in a running game; on the
\* empty board it is X's turn in a running game and no timer is pending.
TimerOnlyOnBotTurn ==
    /\ botTimeout => ~isXNext /\ gameStatus = "playing"
    /\ board = EmptyBoard =>
          isXNext /\ gameStatus = "playing" /\ ~botTimeout

\* A reset leaves no timer pending; from the empty board the only change of
\* the board is the player's X; the bot's O is never placed on X's turn.
ResetStepCancels ==
    /\ (ResetStep /\ board # EmptyBoard) =>
          ~botTimeout' /\ isXNext' /\ gameStatus' = "playing"
    /\ board = EmptyBoard =>
          \/ board' = EmptyBoard
          \/ \E c \in Cells : board' = [board EXCEPT ![c] = "X"]
    /\ \A c \in Added : board'[c] = "O" => ~isXNext

\* C19 -- A reset cancels the pending bot move: after a reset no timer is
\* pending, the board stays empty with isXNext = true and gameStatus =
\* "playing" until the player clicks, and the bot never places an O on a
\* freshly reset board or on X's turn.
ResetCancels == []TimerOnlyOnBotTurn /\ [][ResetStepCancels]_vars

\* A freshly reset game whose reset found the bot's timer pending.
ResetWitness ==
    /\ cancelled
    /\ board = EmptyBoard /\ isXNext /\ gameStatus = "playing"
    /\ ~botTimeout

\* It is the bot's turn in a running game.
BotTurn == gameStatus = "playing" /\ ~isXNext

\* When an O is placed it is the only mark placed, on an empty cell, and
\* afterwards it is X's turn or the game has ended.
BotStep ==
    (\E c \in Added : board'[c] = "O") =>
        /\ MarksKept
        /\ Cardinality(Added) = 1
        /\ isXNext' \/ gameStatus' # "playing"

\* C20 -- Bot response liveness: if a scheduled timer eventually fires, then
\* whenever it is the bot's turn in a running game, eventually it no longer
\* is (the bot has placed exactly one O on an empty cell, or the game was
\* reset).
BotResponds == (BotTurn ~> ~BotTurn) /\ [][BotStep]_vars

\* The bot has answered the player's first move.
BotWitness ==
    /\ op = "minimax"
    /\ count(board, "X") = 1
    /\ count(board, "O") = 1
    /\ ~BotTurn

====
